---- MODULE Spec2Model ----
(***************************************************************************)
(* A model of nar-toolbox's `serve` gateway (src/src/main.rs):             *)
(* store-path parsing, the request handler, the archive walker and the     *)
(* bounded channel between the walker and the response body.               *)
(*                                                                         *)
(* Strings are sequences of one-character strings, so that splitting,      *)
(* trimming and prefix matching are computed as the code computes them.    *)
(***************************************************************************)
EXTENDS Integers, Sequences, FiniteSets, TLC

\* ------------------------------------------------------------------ bounds

\* Longest "-name" suffix of a store path segment among the parser's inputs.
MaxNameLen == 2

\* Longest file payload in the archives.
MaxFileLen == 3

\* BUFFER_SIZE (main.rs:19) is 8192, both the read buffer's length and the
\* channel's capacity; scaled down here so that a full buffer and a full channel
\* are reachable with the payloads above.
BUFFER_SIZE == 2

\* ------------------------------------------------------------- string helpers

\* Option<T>
None == [some |-> FALSE, val |-> <<>>]

Some(v) == [some |-> TRUE, val |-> v]

Slash == "/"

\* the literal of tag("nix/store/") and trim_start_matches("nix/store/")
NixStoreTag == <<"n", "i", "x", "/", "s", "t", "o", "r", "e", "/">>

\* the 32 of take(32usize) and .get(..32)
HashLen == 32

Drop(s, n) == SubSeq(s, n + 1, Len(s))

Take(s, n) == SubSeq(s, 1, n)

StartsWith(s, p) == Len(s) >= Len(p) /\ Take(s, Len(p)) = p

\* str::trim_start_matches: removes the pattern repeatedly
RECURSIVE TrimStartMatches(_, _)
TrimStartMatches(s, p) ==
    IF Len(p) > 0 /\ StartsWith(s, p) THEN TrimStartMatches(Drop(s, Len(p)), p) ELSE s

\* str::trim_end_matches("/"): removes every trailing slash
RECURSIVE TrimEndMatchesSlash(_)
TrimEndMatchesSlash(s) ==
    IF Len(s) > 0 /\ s[Len(s)] = Slash THEN TrimEndMatchesSlash(Take(s, Len(s) - 1)) ELSE s

\* ---------------------------------------------------------------- the parser

\* nom's IResult<&str, NixStorePath>
ParseErr == [ok |-> FALSE, remaining |-> <<>>, hash |-> <<>>, file_path |-> None]

ParseOk(rem, h, fp) == [ok |-> TRUE, remaining |-> rem, hash |-> h, file_path |-> fp]

\* opt(char('/')): the input after an optional leading slash
OptSlash(s) == IF Len(s) > 0 /\ s[1] = Slash THEN Drop(s, 1) ELSE s

\* take_while1(|c| c != '/'): length of the longest slash-free prefix
RECURSIVE TakeWhileNotSlash(_)
TakeWhileNotSlash(s) ==
    IF Len(s) > 0 /\ s[1] # Slash THEN 1 + TakeWhileNotSlash(Drop(s, 1)) ELSE 0

\* opt(preceded(char('/'), rest)): <<file_path, remaining>>
OptSlashRest(s) ==
    IF Len(s) > 0 /\ s[1] = Slash THEN <<Some(Drop(s, 1)), <<>>>> ELSE <<None, s>>

\* a buggy variant: keeps the whole segment, name included
HashOfSegmentWhole(seg) == seg

\* .get(..32).unwrap_or_default(): the first 32 characters, or "" when there are fewer
HashOfSegment(seg) == IF Len(seg) >= HashLen THEN Take(seg, HashLen) ELSE <<>>

\* file_path.map(|s| s.trim_end_matches("/").to_string())
MapTrim(fp) == IF fp.some THEN Some(TrimEndMatchesSlash(fp.val)) ELSE None

parse_full_nix_store_path(input) ==
    LET s1 == OptSlash(input)
    IN  IF ~StartsWith(s1, NixStoreTag) THEN ParseErr
        ELSE LET s2  == Drop(s1, Len(NixStoreTag))
                 n   == TakeWhileNotSlash(s2)
             IN  IF n = 0 THEN ParseErr
                 ELSE LET store_path == Take(input, Len(input) - Len(s2) + n)
                          tail == OptSlashRest(Drop(s2, n))
                          hash == HashOfSegment(
                                    TrimStartMatches(
                                      TrimStartMatches(store_path, <<Slash>>), NixStoreTag))
                      IN  ParseOk(tail[2], hash, MapTrim(tail[1]))

parse_hash_only_path(input) ==
    IF Len(input) < HashLen THEN ParseErr
    ELSE LET tail == OptSlashRest(Drop(input, HashLen))
         IN  ParseOk(tail[2], Take(input, HashLen), MapTrim(tail[1]))

\* alt((parse_full_nix_store_path, parse_hash_only_path))
parse_nix_store_path(input) ==
    LET full == parse_full_nix_store_path(input)
    IN  IF full.ok THEN full ELSE parse_hash_only_path(input)

\* NixStorePath::parse: Option<NixStorePath>, the unparsed remainder is dropped
NixStorePath_parse(p) ==
    LET r == parse_nix_store_path(p)
    IN  IF r.ok THEN Some([hash |-> r.hash, file_path |-> r.file_path]) ELSE None

\* -------------------------------------------------------------- the archive

\* nar_reader::Node: File { reader }, Directory(dir_reader), Symlink.  A file's
\* payload is a sequence of bytes; `id` names the file, and each byte carries it.
File(id, len) ==
    [type |-> "File", id |-> id, data |-> [i \in 1..len |-> id * 10 + i], entries |-> <<>>]

Directory(es) == [type |-> "Directory", id |-> 0, data |-> <<>>, entries |-> es]

Symlink == [type |-> "Symlink", id |-> 0, data |-> <<>>, entries |-> <<>>]

\* nar_reader::Entry
Entry(name, node) == [name |-> name, node |-> node]

\* root/{a/{b, d/{b}, s}, b, c/{b, e (empty), s -> symlink}}
TreeArchive(n) ==
    Directory(<<
        Entry(<<"a">>, Directory(<<
            Entry(<<"b">>, File(2, n)),
            Entry(<<"d">>, Directory(<<Entry(<<"b">>, File(3, n))>>)),
            Entry(<<"s">>, File(7, 1))>>)),
        Entry(<<"b">>, File(4, n)),
        Entry(<<"c">>, Directory(<<
            Entry(<<"b">>, File(5, n)),
            Entry(<<"e">>, File(6, 0)),
            Entry(<<"s">>, Symlink)>>))>>)

\* the archives an upstream store may serve
Archives ==
    {File(1, n) : n \in 0..MaxFileLen} \cup {Symlink, Directory(<<>>)}
        \cup {TreeArchive(n) : n \in 1..MaxFileLen}

\* no node: the archive before it is fetched
Absent == [type |-> "Absent", id |-> 0, data |-> <<>>, entries |-> <<>>]

\* -------------------------------------------------------------------- state

VARIABLES
    path,          \* the request path handed to handle_request
    hpc,           \* where handle_request is: start, narinfo_get, nar_get, spawned, done, panicked
    store_path,    \* NixStorePath::parse(&path)
    status,        \* status of the response returned by handle_request, 0 while there is none
    message,       \* the body of an error response
    gets,          \* the upstream GETs issued so far, in order
    narinfo_resp,  \* what the GET of the metadata record came to
    nar_resp,      \* what the GET of the archive body came to
    narinfo,       \* the parsed metadata record: [url, compression]
    decoder,       \* the decoder wrapped around the archive body
    target_path,   \* the path handed to search_nar
    archive,       \* the root node encoded by the (decoded) archive stream
    wpc,           \* where the walker task is: none, spawned, dir, read, send, done, error, panicked
    stack,         \* the directory readers of the search_nar calls in progress, innermost last
    cur,           \* the file stream_file is reading
    buffer,        \* the chunk stream_file is sending
    intact,        \* FALSE once the archive stream has failed or a payload was left unread
    chan,          \* the chunks in the channel
    tx,            \* TRUE while a sender of the channel is alive
    rx,            \* the receiving end: none, open, ended, dropped
    received,      \* the bytes the response body has yielded
    sent,          \* history: the bytes the channel has accepted
    send_failed,   \* history: a send has failed
    left,          \* history: the files stream_file has returned from
    parked         \* the state of a second request in progress while this one runs

vars == <<path, hpc, store_path, status, message, gets, narinfo_resp, nar_resp, narinfo,
          decoder, target_path,
          archive, wpc, stack, cur, buffer, intact, chan, tx, rx, received, sent, send_failed,
          left, parked>>

handlerVars ==
    <<path, hpc, store_path, status, message, gets, narinfo_resp, nar_resp, narinfo, decoder>>

walkerVars == <<wpc, stack, cur, buffer, intact, sent, send_failed, left>>

\* a 32-character hash
Hash(c) == [i \in 1..HashLen |-> c]

NoFile == [id |-> 0, data |-> <<>>, should_stream |-> FALSE]

NoResponse == [net |-> "none", success |-> FALSE, parses |-> FALSE, compression |-> None]

NoNarinfo == [url |-> "", compression |-> None]

Start(p) ==
    /\ path = p
    /\ hpc = "start"
    /\ store_path = None
    /\ status = 0
    /\ message = <<>>
    /\ gets = <<>>
    /\ narinfo_resp = NoResponse
    /\ nar_resp = "none"
    /\ narinfo = NoNarinfo
    /\ decoder = "none"
    /\ target_path = <<>>
    /\ archive = Absent
    /\ wpc = "none"
    /\ stack = <<>>
    /\ cur = NoFile
    /\ buffer = <<>>
    /\ intact = TRUE
    /\ chan = <<>>
    /\ tx = FALSE
    /\ rx = "none"
    /\ received = <<>>
    /\ sent = <<>>
    /\ send_failed = FALSE
    /\ left = {}

\* a request as handle_request is entered with it, as a record of its own state
Fresh(p) ==
    [path |-> p, hpc |-> "start", store_path |-> None, status |-> 0, message |-> <<>>,
     gets |-> <<>>, narinfo_resp |-> NoResponse, nar_resp |-> "none",
     narinfo |-> NoNarinfo, decoder |-> "none", target_path |-> <<>>,
     archive |-> Absent, wpc |-> "none", stack |-> <<>>, cur |-> NoFile,
     buffer |-> <<>>, intact |-> TRUE, chan |-> <<>>, tx |-> FALSE, rx |-> "none",
     received |-> <<>>, sent |-> <<>>, send_failed |-> FALSE, left |-> {}]

\* no second request
Nobody == [Fresh(<<>>) EXCEPT !.hpc = "none"]

\* the state of the request that is running
Snapshot ==
    [path |-> path, hpc |-> hpc, store_path |-> store_path, status |-> status,
     message |-> message, gets |-> gets, narinfo_resp |-> narinfo_resp,
     nar_resp |-> nar_resp, narinfo |-> narinfo, decoder |-> decoder,
     target_path |-> target_path, archive |-> archive, wpc |-> wpc, stack |-> stack,
     cur |-> cur, buffer |-> buffer, intact |-> intact, chan |-> chan, tx |-> tx,
     rx |-> rx, received |-> received, sent |-> sent, send_failed |-> send_failed,
     left |-> left]

\* ------------------------------------------------------------------- inputs

Rep(c, n) == [i \in 1..n |-> c]

\* "-name" suffixes of a store path segment
NameSuffix(k) == <<"-">> \o Rep("n", k)

Hashes == {Hash("h"), [i \in 1..HashLen |-> IF i = 2 THEN "-" ELSE "k"]}

\* segments: too short, one short of a hash, a hash alone, a hash and a name, a hash
\* run on without a dash, and what is left of 32 characters after "[/]nix/store/"
ParseSegments ==
    {<<>>, <<"a">>, <<"a", "-", "n">>, Rep("a", HashLen - 1)}
        \cup {Rep("a", HashLen - Len(NixStoreTag) - d) : d \in 0..1}
        \cup {h \o suf : h \in Hashes,
                         suf \in {<<>>, <<"x">>} \cup {NameSuffix(k) : k \in 0..MaxNameLen}}

ParseTails ==
    {<<>>, <<"/">>, <<"/", "b">>, <<"/", "b", "/">>, <<"/", "a", "/", "b">>,
     <<"/", "b", "/", "/">>}

\* the request paths the parser is checked on
ParseInputs ==
    {lead \o pre \o seg \o tail :
        lead \in {<<>>, <<"/">>}, pre \in {<<>>, NixStoreTag},
        seg \in ParseSegments, tail \in ParseTails}

\* the request paths the gateway is checked on
RequestPaths ==
    {Hash("h") \o t : t \in {<<>>, <<"/", "b">>, <<"/", "a", "/", "b">>,
                             <<"/", "a", "/", "d", "/", "b">>, <<"/", "x", "/", "b">>,
                             <<"/", "c", "/", "s">>, <<"/", "c", "/", "e">>}}
        \cup {<<"/">> \o NixStoreTag \o Hash("h") \o NameSuffix(1) \o <<"/", "c", "/", "b">>,
              NixStoreTag \o <<"a">>,
              <<"a">>,
              Rep("h", HashLen - 1)}

\* Compression of the metadata record: absent, the four known codecs, others
Compressions ==
    {None, Some("bzip2"), Some("gzip"), Some("xz"), Some("zstd"), Some("br"), Some("")}

\* what the GET of the metadata record may come to: a network failure, or a response
\* of some status whose body is a record with a url (parses) or is not (no url)
NarinfoOutcomes ==
    {[net |-> "error", success |-> FALSE, parses |-> FALSE, compression |-> None]}
        \cup {[net |-> "ok", success |-> ok, parses |-> FALSE, compression |-> None] :
                ok \in BOOLEAN}
        \cup {[net |-> "ok", success |-> ok, parses |-> TRUE, compression |-> c] :
                ok \in BOOLEAN, c \in Compressions}

\* what the GET of the archive body may come to
NarOutcomes == {"error", "status", "ok"}

\* ------------------------------------------------------------ handle_request

channelVars == <<chan, tx, rx, received>>

\* a buggy variant: the body alone is turned into a response, whose status is 200
RespondBodyOnly(code, msg) ==
    /\ status' = 200
    /\ message' = msg
    /\ hpc' = "done"

\* (StatusCode, body).into_response(), returned from handle_request
Respond(code, msg) ==
    /\ status' = code
    /\ message' = msg
    /\ hpc' = "done"

\* target_path.split_once('/'): <<dir_name, remaining_path>>
SplitOnce(t) ==
    LET n == TakeWhileNotSlash(t)
    IN  IF n < Len(t) THEN <<Take(t, n), Drop(t, n + 1)>> ELSE <<t, <<>>>>

\* store_path.file_path.map(|s| format!("/{}", s)).unwrap_or("/".to_string())
TargetPath(fp) == IF fp.some THEN <<Slash>> \o fp.val ELSE <<Slash>>

\* a buggy variant: an unknown tag falls through to the pass-through reader
SelectDecoderLax(c) ==
    IF ~c.some THEN "identity"
    ELSE IF c.val \in {"bzip2", "gzip", "xz", "zstd"} THEN c.val
    ELSE "identity"

\* match narinfo.compression { ... }: the decoder, or "unsupported"
SelectDecoder(c) ==
    IF ~c.some THEN "identity"
    ELSE IF c.val \in {"bzip2", "gzip", "xz", "zstd"} THEN c.val
    ELSE "unsupported"

\* lines 69-74: parse the path; answer 404, or issue the GET of the metadata record
Resolve ==
    /\ hpc = "start"
    /\ LET sp == NixStorePath_parse(path)
       IN  IF ~sp.some
           THEN /\ Respond(404, <<"Not found">>)
                /\ UNCHANGED <<store_path, gets>>
           ELSE /\ store_path' = sp
                /\ gets' = Append(gets, [kind |-> "narinfo", key |-> sp.val.hash])
                /\ hpc' = "narinfo_get"
                /\ UNCHANGED <<status, message>>
    /\ UNCHANGED <<path, narinfo_resp, nar_resp, narinfo, decoder, target_path, archive>>
    /\ UNCHANGED walkerVars
    /\ UNCHANGED channelVars
    /\ UNCHANGED parked

\* lines 74-82: the metadata GET completes; every failure is an unwrap() that panics,
\* the response's status is not looked at; then issue the GET of the archive body
NarinfoResponse ==
    /\ hpc = "narinfo_get"
    /\ \E resp \in NarinfoOutcomes :
        /\ narinfo_resp' = resp
        /\ IF resp.net = "error" \/ ~resp.parses
           THEN /\ hpc' = "panicked"
                /\ UNCHANGED <<narinfo, gets>>
           ELSE /\ narinfo' = [url |-> "nar/1.nar", compression |-> resp.compression]
                /\ gets' = Append(gets, [kind |-> "nar", key |-> "nar/1.nar"])
                /\ hpc' = "nar_get"
    /\ UNCHANGED <<path, store_path, status, message, nar_resp, decoder, target_path, archive>>
    /\ UNCHANGED walkerVars
    /\ UNCHANGED channelVars
    /\ UNCHANGED parked

\* lines 82-135: the archive GET completes; on success pick the decoder, create the
\* channel and spawn the walker on the decoded stream
NarResponse ==
    /\ hpc = "nar_get"
    /\ \E resp \in NarOutcomes :
        /\ nar_resp' = resp
        /\ IF resp = "error"
           THEN /\ Respond(500, <<"Failed to fetch NAR">>)
                /\ UNCHANGED <<decoder, target_path, archive, wpc, chan, tx, rx>>
           ELSE IF resp = "status"
           THEN /\ Respond(502, <<"Failed to fetch NAR">>)
                /\ UNCHANGED <<decoder, target_path, archive, wpc, chan, tx, rx>>
           ELSE IF SelectDecoder(narinfo.compression) = "unsupported"
           THEN /\ Respond(500, <<"Unsupported compression: ", narinfo.compression.val>>)
                /\ UNCHANGED <<decoder, target_path, archive, wpc, chan, tx, rx>>
           ELSE /\ decoder' = SelectDecoder(narinfo.compression)
                /\ chan' = <<>>
                /\ tx' = TRUE
                /\ rx' = "open"
                /\ target_path' = TargetPath(store_path.val.file_path)
                /\ archive' \in Archives
                /\ wpc' = "spawned"
                /\ hpc' = "spawned"
                /\ UNCHANGED <<status, message>>
    /\ UNCHANGED <<path, store_path, gets, narinfo_resp, narinfo, received>>
    /\ UNCHANGED <<stack, cur, buffer, intact, sent, send_failed, left>>
    /\ UNCHANGED parked

\* a buggy variant: the streaming response is built with an error status
StreamResponseError ==
    /\ hpc = "spawned"
    /\ status' = 500
    /\ hpc' = "done"
    /\ UNCHANGED <<path, store_path, message, gets, narinfo_resp, nar_resp, narinfo, decoder,
                   target_path, archive>>
    /\ UNCHANGED walkerVars
    /\ UNCHANGED channelVars
    /\ UNCHANGED parked

\* lines 137-143: the streaming response is returned: its status is committed
StreamResponse ==
    /\ hpc = "spawned"
    /\ status' = 200
    /\ hpc' = "done"
    /\ UNCHANGED <<path, store_path, message, gets, narinfo_resp, nar_resp, narinfo, decoder,
                   target_path, archive>>
    /\ UNCHANGED walkerVars
    /\ UNCHANGED channelVars
    /\ UNCHANGED parked

\* ------------------------------------------------------- search_nar, stream_file

\* a buggy variant: the whole of what is left is taken, whatever the buffer holds
MinSecond(a, b) == b

Min(a, b) == IF a < b THEN a ELSE b

\* line 157: a root File is streamed whatever the target path is
RootShouldStream(target) == TRUE

\* a buggy variant: a file entry matches the directory's own segment
EntryShouldStreamDirName(name, frame) == name = frame.dir_name

\* line 171: entry.name == remaining_path.as_bytes()
EntryShouldStream(name, frame) == name = frame.remaining_path

\* lines 160-163: the directory reader of a search_nar call on a Directory
Frame(node, target) ==
    [entries |-> node.entries,
     dir_name |-> SplitOnce(target)[1],
     remaining_path |-> SplitOnce(target)[2]]

\* lines 174-181: the path a subdirectory is searched with; the entry's name is not
\* compared with anything
RecurseTarget(name, frame) == frame.remaining_path

Reading(node, should_stream) ==
    [id |-> node.id, data |-> node.data, should_stream |-> should_stream]

\* a buggy variant: a sender outlives the task
WalkerEndsKeepingTx(how) ==
    /\ wpc' = how
    /\ tx' = tx
    /\ stack' = <<>>
    /\ cur' = NoFile
    /\ buffer' = <<>>

\* the task ends: search_nar's tx and every clone of it are dropped
WalkerEnds(how) ==
    /\ wpc' = how
    /\ tx' = FALSE
    /\ stack' = <<>>
    /\ cur' = NoFile
    /\ buffer' = <<>>

\* stream_file returns (Ok(0), a failed read or a failed send), back to its caller:
\* the entry loop of the innermost directory, or the end of search_nar on a root File
LeaveFile(failed) ==
    /\ left' = left \cup {[id |-> cur.id, unread |-> Len(cur.data), failed |-> failed]}
    /\ intact' = (intact /\ ~failed /\ cur.data = <<>>)
    /\ IF stack = <<>>
       THEN WalkerEnds("done")
       ELSE /\ wpc' = "dir"
            /\ cur' = NoFile
            /\ buffer' = <<>>
            /\ UNCHANGED <<stack, tx>>

\* lines 130-132, 155-163: nar_reader::open(&mut r).await.unwrap(), then search_nar
\* on the root node
WalkerOpen ==
    /\ wpc = "spawned"
    /\ \E opened \in BOOLEAN :
        IF ~opened
        THEN /\ WalkerEnds("panicked")
             /\ intact' = FALSE
        ELSE /\ UNCHANGED intact
             /\ IF archive.type = "File"
                THEN /\ wpc' = "read"
                     /\ cur' = Reading(archive, RootShouldStream(target_path))
                     /\ UNCHANGED <<stack, buffer, tx>>
                ELSE IF archive.type = "Directory"
                THEN /\ wpc' = "dir"
                     /\ stack' = <<Frame(archive, target_path)>>
                     /\ UNCHANGED <<cur, buffer, tx>>
                ELSE WalkerEnds("done")
    /\ UNCHANGED <<sent, send_failed, left, chan, rx, received, target_path, archive>>
    /\ UNCHANGED handlerVars
    /\ UNCHANGED parked

\* a buggy variant: the reader goes on after a failed or abandoned payload
NextErrOnlyFresh(fails) == fails

\* dir_reader.next() is Err when the stream fails now, or when it has failed or was
\* left inside a payload before: what follows is not an entry
NextErr(fails) == fails \/ ~intact

\* lines 167-184: one turn of `while let Some(entry) = dir_reader.next().await?`
WalkerNext ==
    /\ wpc = "dir"
    /\ LET top == stack[Len(stack)]
           below == Take(stack, Len(stack) - 1)
       IN  \E fails \in BOOLEAN :
            IF NextErr(fails)
            THEN \* Err: the stream failed, or does not continue with an entry
                 /\ WalkerEnds("error")
                 /\ intact' = FALSE
            ELSE IF top.entries = <<>>
            THEN \* None: search_nar returns Ok to the loop of the enclosing directory
                 /\ UNCHANGED intact
                 /\ IF below = <<>>
                    THEN WalkerEnds("done")
                    ELSE /\ stack' = below
                         /\ UNCHANGED <<wpc, cur, buffer, tx>>
            ELSE LET entry == Head(top.entries)
                     rest == Append(below, [top EXCEPT !.entries = Tail(top.entries)])
                 IN  /\ UNCHANGED intact
                     /\ IF entry.node.type = "File"
                        THEN /\ wpc' = "read"
                             /\ cur' = Reading(entry.node, EntryShouldStream(entry.name, top))
                             /\ stack' = rest
                             /\ UNCHANGED <<buffer, tx>>
                        ELSE IF entry.node.type = "Directory"
                        THEN /\ stack' = Append(rest,
                                           Frame(entry.node, RecurseTarget(entry.name, top)))
                             /\ UNCHANGED <<wpc, cur, buffer, tx>>
                        ELSE /\ stack' = rest
                             /\ UNCHANGED <<wpc, cur, buffer, tx>>
    /\ UNCHANGED <<sent, send_failed, left, chan, rx, received, target_path, archive>>
    /\ UNCHANGED handlerVars
    /\ UNCHANGED parked

\* lines 198-212: reader.read(&mut buffer).await and the match on its result
WalkerRead ==
    /\ wpc = "read"
    /\ \/ \* Err(e): logged, break
          /\ LeaveFile(TRUE)
       \/ \* Ok(0): break
          /\ cur.data = <<>>
          /\ LeaveFile(FALSE)
       \/ \* Ok(n)
          /\ \E n \in 1..Min(BUFFER_SIZE, Len(cur.data)) :
               /\ cur' = [cur EXCEPT !.data = Drop(cur.data, n)]
               /\ IF cur.should_stream
                  THEN /\ buffer' = Take(cur.data, n)
                       /\ wpc' = "send"
                  ELSE UNCHANGED <<buffer, wpc>>
          /\ UNCHANGED <<stack, tx, intact, left>>
    /\ UNCHANGED <<sent, send_failed, chan, rx, received, target_path, archive>>
    /\ UNCHANGED handlerVars
    /\ UNCHANGED parked

\* a buggy variant: one channel for every request; the chunk goes to the request that
\* created it last
WalkerSendShared ==
    /\ wpc = "send"
    /\ parked.rx = "open"
    /\ Len(parked.chan) < BUFFER_SIZE
    /\ parked' = [parked EXCEPT !.chan = Append(@, buffer)]
    /\ sent' = sent \o buffer
    /\ wpc' = "read"
    /\ buffer' = <<>>
    /\ UNCHANGED <<cur, stack, tx, intact, left, send_failed, chan>>
    /\ UNCHANGED <<rx, received, target_path, archive>>
    /\ UNCHANGED handlerVars

\* line 203: tx.send(Ok(buffer[..n].to_vec())).await; suspended while the channel is
\* full and the receiver is there
WalkerSend ==
    /\ wpc = "send"
    /\ \/ \* the receiver is gone: Err, break
          /\ rx \in {"dropped", "ended"}
          /\ LeaveFile(FALSE)
          /\ send_failed' = TRUE
          /\ UNCHANGED <<chan, sent>>
       \/ /\ rx = "open"
          /\ Len(chan) < BUFFER_SIZE
          /\ chan' = Append(chan, buffer)
          /\ sent' = sent \o buffer
          /\ wpc' = "read"
          /\ buffer' = <<>>
          /\ UNCHANGED <<cur, stack, tx, intact, left, send_failed>>
    /\ UNCHANGED <<rx, received, target_path, archive>>
    /\ UNCHANGED handlerVars
    /\ UNCHANGED parked

\* ------------------------------------------------------------- response body

\* Body::from_stream(ReceiverStream::new(rx)) is polled once the response is returned:
\* the next chunk
BodyReceive ==
    /\ hpc = "done"
    /\ rx = "open"
    /\ chan # <<>>
    /\ received' = received \o Head(chan)
    /\ chan' = Tail(chan)
    /\ UNCHANGED <<tx, rx, target_path, archive>>
    /\ UNCHANGED walkerVars
    /\ UNCHANGED handlerVars
    /\ UNCHANGED parked

\* the channel is empty and every sender is dropped: the stream, and the body, end
BodyEnd ==
    /\ hpc = "done"
    /\ rx = "open"
    /\ chan = <<>>
    /\ ~tx
    /\ rx' = "ended"
    /\ UNCHANGED <<chan, tx, received, target_path, archive>>
    /\ UNCHANGED walkerVars
    /\ UNCHANGED handlerVars
    /\ UNCHANGED parked

\* the client goes away: the body, and the receiver in it, are dropped
ClientDisconnect ==
    /\ hpc = "done"
    /\ rx = "open"
    /\ rx' = "dropped"
    /\ chan' = <<>>
    /\ UNCHANGED <<tx, received, target_path, archive>>
    /\ UNCHANGED walkerVars
    /\ UNCHANGED handlerVars
    /\ UNCHANGED parked

\* ------------------------------------------------------------ specifications

Init == \E p \in RequestPaths : Start(p) /\ parked = Nobody

Next ==
    \/ Resolve
    \/ NarinfoResponse
    \/ NarResponse
    \/ StreamResponse
    \/ WalkerOpen
    \/ WalkerNext
    \/ WalkerRead
    \/ WalkerSend
    \/ BodyReceive
    \/ BodyEnd
    \/ ClientDisconnect

Spec == Init /\ [][Next]_vars

\* the gateway when the runtime keeps running the handler and the walker task, the
\* archive stream answers every read, and the response body keeps being polled;
\* the upstream fetches and the client's leaving are under no such obligation
SpecLive ==
    /\ Spec
    /\ WF_vars(StreamResponse)
    /\ WF_vars(WalkerOpen)
    /\ WF_vars(WalkerNext)
    /\ WF_vars(WalkerRead)
    /\ WF_vars(WalkerSend)
    /\ WF_vars(BodyReceive)
    /\ WF_vars(BodyEnd)

\* lines 53-59 and 129: axum runs every request's handler, and tokio every walker, as
\* a task of its own; the runtime leaves the running request where it is and runs the
\* other one.  Every variable of a request is a local of its own handler and walker.
Switch ==
    /\ parked # Nobody
    /\ path' = parked.path
    /\ hpc' = parked.hpc
    /\ store_path' = parked.store_path
    /\ status' = parked.status
    /\ message' = parked.message
    /\ gets' = parked.gets
    /\ narinfo_resp' = parked.narinfo_resp
    /\ nar_resp' = parked.nar_resp
    /\ narinfo' = parked.narinfo
    /\ decoder' = parked.decoder
    /\ target_path' = parked.target_path
    /\ archive' = parked.archive
    /\ wpc' = parked.wpc
    /\ stack' = parked.stack
    /\ cur' = parked.cur
    /\ buffer' = parked.buffer
    /\ intact' = parked.intact
    /\ chan' = parked.chan
    /\ tx' = parked.tx
    /\ rx' = parked.rx
    /\ received' = parked.received
    /\ sent' = parked.sent
    /\ send_failed' = parked.send_failed
    /\ left' = parked.left
    /\ parked' = Snapshot

\* the archive the upstream cache holds for a hash
OwnArchive(p) == IF Take(p, HashLen) = Hash("h") THEN File(1, MaxFileLen)
                                                 ELSE TreeArchive(MaxFileLen)

\* two requests for different hashes, in flight at once
TwoInit == Start(Hash("h")) /\ parked = Fresh(Hash("k") \o <<"/", "b">>)

\* both requests find their metadata record, which names no compression, and their
\* archive; everything after that is as in Next
TwoNext ==
    \/ Resolve
    \/ NarinfoResponse /\ narinfo_resp' \in {r \in NarinfoOutcomes :
                                r.parses /\ r.success /\ ~r.compression.some}
    \/ NarResponse /\ nar_resp' = "ok" /\ archive' = OwnArchive(path)
    \/ StreamResponse
    \/ WalkerOpen
    \/ WalkerNext
    \/ WalkerRead
    \/ WalkerSend
    \/ BodyReceive
    \/ BodyEnd
    \/ ClientDisconnect
    \/ Switch

SpecTwo == TwoInit /\ [][TwoNext]_vars

\* the parser alone, on every input of ParseInputs
ParseInit == \E p \in ParseInputs : Start(p) /\ parked = Nobody

ParseNext == Resolve

SpecParse == ParseInit /\ [][ParseNext]_vars

\* ================================================================== claims
\* ------------------------------------------------------------ the parser

\* the parser has run on `path`
Parsed == hpc # "start"

\* s is t without its trailing slashes
IsStripped(s, t) ==
    /\ Len(s) <= Len(t)
    /\ s = Take(t, Len(s))
    /\ \A i \in Len(s) + 1..Len(t) : t[i] = Slash
    /\ (s = <<>> \/ s[Len(s)] # Slash)

NoSlashIn(s) == \A i \in 1..Len(s) : s[i] # Slash

\* the characters a path offers the full form as its hash: the segment after
\* [/]nix/store/, cut at 32; none when the prefix is not there
FullFormHashChars(p) ==
    LET s == IF Len(p) > 0 /\ p[1] = Slash THEN Drop(p, 1) ELSE p
    IN  IF StartsWith(s, NixStoreTag)
        THEN Min(HashLen, TakeWhileNotSlash(Drop(s, Len(NixStoreTag))))
        ELSE 0

\* C8: every successful result of NixStorePath::parse has a hash of exactly 32
\* characters, and an input with fewer than 32 hash characters in both grammars
\* (fewer than 32 characters in all, fewer than 32 in the nix/store segment) does
\* not resolve.
C8_HashIs32 ==
    Parsed =>
        /\ store_path.some => Len(store_path.val.hash) = HashLen
        /\ (Len(path) < HashLen /\ FullFormHashChars(path) < HashLen) => ~store_path.some

\* path = lead \o "nix/store/" \o h \o "-" \o name [\o "/" \o rest], lead of l
\* characters ("" or "/"), h of 32 characters, no "/" in h and name
IsFullForm(p, l) ==
    LET b == l + Len(NixStoreTag)
    IN  /\ l = 1 => (Len(p) > 0 /\ p[1] = Slash)
        /\ Len(p) >= b + HashLen + 1
        /\ SubSeq(p, l + 1, b) = NixStoreTag
        /\ NoSlashIn(SubSeq(p, b + 1, b + HashLen))
        /\ p[b + HashLen + 1] = "-"

\* C9: for an input [/]nix/store/<h>-<name>[/<rest>] with h of 32 characters and no
\* "/" in h and name, the parser yields hash = h (the -name suffix is dropped) and
\* file_path = rest without its trailing slashes, or None when no /rest follows.
C9_FullForm ==
    \A l \in 0..1 :
        (Parsed /\ IsFullForm(path, l)) =>
            LET b == l + Len(NixStoreTag)
                seg == TakeWhileNotSlash(Drop(path, b))
                after == Drop(path, b + seg)
            IN  /\ store_path.some
                /\ store_path.val.hash = SubSeq(path, b + 1, b + HashLen)
                /\ IF after = <<>>
                   THEN store_path.val.file_path = None
                   ELSE /\ store_path.val.file_path.some
                        /\ IsStripped(store_path.val.file_path.val, Drop(after, 1))

\* C9's case: a full-form path with a name and a rest ending in slashes was parsed
C9_Witness ==
    /\ Parsed
    /\ IsFullForm(path, 1)
    /\ Len(path) > 1 + Len(NixStoreTag) + HashLen + 2
    /\ path[Len(path)] = Slash
    /\ path[Len(path) - 1] = Slash
    /\ store_path.some
    /\ store_path.val.file_path = Some(<<"b">>)

\* C10: for an input of exactly 32 characters h, optionally followed by "/" and a
\* rest, the parser yields hash = h and file_path = rest without its trailing
\* slashes, or None when the input is the 32 characters alone.
C10_BareHash ==
    (Parsed /\ Len(path) >= HashLen /\ (Len(path) > HashLen => path[HashLen + 1] = Slash)) =>
        /\ store_path.some
        /\ store_path.val.hash = Take(path, HashLen)
        /\ IF Len(path) = HashLen
           THEN store_path.val.file_path = None
           ELSE /\ store_path.val.file_path.some
                /\ IsStripped(store_path.val.file_path.val, Drop(path, HashLen + 1))

\* ------------------------------------------------------------- the walker

\* the walker has been spawned on an archive
Walking == wpc # "none"

\* the node reached from `node` by following the names of `segs`, Absent when a name
\* is missing on the way
RECURSIVE Lookup(_, _)
Lookup(node, segs) ==
    IF segs = <<>> THEN node
    ELSE IF node.type # "Directory" THEN Absent
    ELSE LET hits == {i \in 1..Len(node.entries) : node.entries[i].name = Head(segs)}
         IN  IF hits = {} THEN Absent
             ELSE Lookup(node.entries[CHOOSE i \in hits : TRUE].node, Tail(segs))

\* the files of a tree, as their ids
RECURSIVE FileIds(_)
FileIds(node) ==
    IF node.type = "File" THEN {node.id}
    ELSE UNION {FileIds(node.entries[i].node) : i \in 1..Len(node.entries)}

\* a slash-separated path as its sequence of segments ("a/b" -> <<"a", "b">>)
RECURSIVE Segments(_)
Segments(s) ==
    LET n == TakeWhileNotSlash(s)
    IN  IF n = Len(s) THEN <<s>> ELSE <<Take(s, n)>> \o Segments(Drop(s, n + 1))

\* the segments of the requested intra-archive path, none when there is no path
RequestedSegments ==
    IF store_path.some /\ store_path.val.file_path.some
    THEN Segments(store_path.val.file_path.val)
    ELSE <<>>

\* the node the requested path names in the archive
Requested == Lookup(archive, RequestedSegments)

Bytes(q) == {q[i] : i \in 1..Len(q)}

IsPrefix(q, r) == Len(q) <= Len(r) /\ q = Take(r, Len(q))

\* C1: with a Directory root and a target s1/.../sn, only the bytes of the file
\* reached by following s1, ..., sn by name from the root are forwarded; no byte of
\* a file under an entry whose name differs from the segment ever is.
C1_OnlyNamedFileForwarded ==
    (Walking /\ archive.type = "Directory") =>
        IF Requested.type = "File" THEN IsPrefix(sent, Requested.data) ELSE sent = <<>>

\* C2: a File is streamed only if the remaining target path is empty: a root File
\* under a request with a non-empty intra-archive path is read and discarded, and
\* nothing is sent to the channel.
C2_RootFileNeedsEmptyPath ==
    (Walking /\ archive.type = "File" /\ store_path.val.file_path.some
             /\ store_path.val.file_path.val # <<>>) =>
        /\ sent = <<>>
        /\ chan = <<>>
        /\ ~cur.should_stream

\* C3: when the path resolves, both fetches succeed and the archive has no file at
\* the requested path, the response is a 200, no chunk is ever sent and the channel
\* closes with zero bytes delivered.
C3_AbsentPathSendsNothing ==
    (Walking /\ Requested.type # "File") =>
        /\ hpc = "done" => status = 200
        /\ sent = <<>>
        /\ chan = <<>>
        /\ received = <<>>

\* a root directory whose entries are a subtree a/, a file b and a subtree c/
IsABC(node) ==
    /\ node.type = "Directory"
    /\ Len(node.entries) = 3
    /\ node.entries[1].name = <<"a">> /\ node.entries[1].node.type = "Directory"
    /\ node.entries[2].name = <<"b">> /\ node.entries[2].node.type = "File"
    /\ node.entries[3].name = <<"c">> /\ node.entries[3].node.type = "Directory"

RequestsB == store_path.some /\ store_path.val.file_path = Some(<<"b">>)

\* the files under a/ and c/
SiblingFiles == FileIds(archive.entries[1].node) \cup FileIds(archive.entries[3].node)

\* C4: on a root {a/, b, c/} a request for "b" forwards exactly the bytes of b:
\* what is sent is always a prefix of b, and all of b once the walk has finished with
\* the receiver there; no byte of a file under a/ or c/ is forwarded, yet each of
\* those payloads is read to its end (short of a failed read) before the walk goes
\* on, and all of them have been when the walk finishes.
C4_ExactlyB ==
    (Walking /\ IsABC(archive) /\ RequestsB) =>
        LET b == archive.entries[2].node
        IN  /\ IsPrefix(sent, b.data)
            /\ (wpc = "done" /\ rx # "dropped") => sent = b.data
            /\ \A l \in left : l.id \in SiblingFiles => (l.unread = 0 \/ l.failed)
            /\ (cur.id \in SiblingFiles) => ~cur.should_stream
            /\ wpc = "done" =>
                 \A id \in SiblingFiles : [id |-> id, unread |-> 0, failed |-> FALSE] \in left

\* C4's case: the walk of {a/, b, c/} for "b" has finished, b's bytes are all sent
\* and the files under a/ and c/ have been drained
C4_Witness ==
    /\ Walking /\ IsABC(archive) /\ RequestsB
    /\ wpc = "done"
    /\ Len(sent) = MaxFileLen
    /\ sent = archive.entries[2].node.data
    /\ received = sent
    /\ {l.id : l \in left} = FileIds(archive)

\* ---------------------------------------------------------- the handler's errors

\* C5: every error found before the status is committed yields a response with a
\* status code; a metadata record without a well-formed url yields a 500, the
\* handler does not end without a response.
C5_ErrorsGetAStatus ==
    /\ hpc # "panicked"
    /\ (narinfo_resp.net = "ok" /\ ~narinfo_resp.parses) => (hpc = "done" /\ status = 500)

\* C6: when the GET of the metadata record fails at the network level or comes back
\* with a non-success status, the answer is a 502, the body is not parsed as
\* metadata and no archive fetch is issued.
C6_MetadataFetchError ==
    (narinfo_resp.net = "error" \/ (narinfo_resp.net = "ok" /\ ~narinfo_resp.success)) =>
        /\ hpc = "done"
        /\ status = 502
        /\ narinfo = NoNarinfo
        /\ \A i \in 1..Len(gets) : gets[i].kind # "nar"

KnownCodecs == {"bzip2", "gzip", "xz", "zstd"}

\* the metadata record carries a compression tag that is none of the four codecs,
\* and the archive GET has completed
UnknownTagAnswered ==
    /\ narinfo.compression.some
    /\ narinfo.compression.val \notin KnownCodecs
    /\ nar_resp # "none"

NoWalker == wpc = "none" /\ ~tx /\ rx = "none" /\ chan = <<>>

\* C7 as stated: an unknown compression tag is answered with a 500 whose message
\* holds the tag and no walker is spawned, whatever the archive fetch came to.
C7_UnknownTagAlways500 ==
    UnknownTagAnswered =>
        /\ hpc = "done"
        /\ status = 500
        /\ message = <<"Unsupported compression: ", narinfo.compression.val>>
        /\ NoWalker

\* C7, amended: with an unknown compression tag no walker is spawned and the request
\* is answered with an error; the answer is the 500 naming the tag when the archive
\* fetch succeeded, and the fetch's own error when it did not (500 on a network
\* failure, 502 on a non-success status, "Failed to fetch NAR").
C7_UnknownTagAfterFetch ==
    UnknownTagAnswered =>
        /\ hpc = "done"
        /\ NoWalker
        /\ nar_resp = "ok" =>
             /\ status = 500
             /\ message = <<"Unsupported compression: ", narinfo.compression.val>>
        /\ nar_resp = "error" => (status = 500 /\ message = <<"Failed to fetch NAR">>)
        /\ nar_resp = "status" => (status = 502 /\ message = <<"Failed to fetch NAR">>)

\* C7's case: the archive was fetched and the tag "br" was turned down
C7_Witness ==
    /\ UnknownTagAnswered
    /\ narinfo.compression.val = "br"
    /\ nar_resp = "ok"
    /\ status = 500
    /\ message = <<"Unsupported compression: ", "br">>

\* ------------------------------------------------------- resolution failures

\* C11: when the path does not resolve, the request is answered 404 and nothing
\* else happens: no metadata GET, no archive GET, no channel, no walker task.
C11_NotFoundNoEffect ==
    (Parsed /\ ~store_path.some) =>
        /\ hpc = "done"
        /\ status = 404
        /\ gets = <<>>
        /\ narinfo_resp = NoResponse /\ nar_resp = "none"
        /\ NoWalker
        /\ sent = <<>> /\ received = <<>>

\* C11's case: a path one character short of a hash was turned down
C11_Witness ==
    /\ Parsed
    /\ Len(path) = HashLen - 1
    /\ ~store_path.some
    /\ status = 404

\* ------------------------------------------------------ walker and response

\* the walker has taken its first step (the archive is opened, or failed to open)
WalkerStarted == wpc \notin {"none", "spawned"}

C13_ExitOnFailedSend ==
    [][send_failed =>
          /\ wpc' \in {wpc, "done"}
          /\ stack' \in {stack, <<>>}
          /\ cur' \in {cur, NoFile}
          /\ sent' = sent]_vars

\* ------------------------------------------------------------- the channel

RECURSIVE Flatten(_)
Flatten(chunks) == IF chunks = <<>> THEN <<>> ELSE Head(chunks) \o Flatten(Tail(chunks))

\* the payloads of the files of a tree
RECURSIVE Payloads(_)
Payloads(node) ==
    IF node.type = "File" THEN {node.data}
    ELSE UNION {Payloads(node.entries[i].node) : i \in 1..Len(node.entries)}

\* C14: what the response body has received so far is a prefix of the matched
\* file's bytes, in the archive's order: one file's payload, with no chunk
\* reordered, duplicated or dropped between the send and the receive.
C14_ReceivedPrefixOfFile ==
    Walking =>
        /\ IsPrefix(received, sent)
        /\ rx = "open" => received \o Flatten(chan) = sent
        /\ \E d \in Payloads(archive) \cup {<<>>} : IsPrefix(received, d)

\* C15: the channel never holds more chunks than its capacity, every chunk is
\* non-empty and no longer than the read buffer, and a send on a full channel
\* whose receiver is there cannot complete: the walker waits for the body to
\* receive a chunk (a send with room in the channel can complete).
C15_BoundedChannel ==
    /\ Len(chan) <= BUFFER_SIZE
    /\ \A i \in 1..Len(chan) : Len(chan[i]) \in 1..BUFFER_SIZE
    /\ wpc = "send" => Len(buffer) \in 1..BUFFER_SIZE
    /\ (wpc = "send" /\ rx = "open") => (ENABLED WalkerSend <=> Len(chan) < BUFFER_SIZE)

\* C15's case: the walker has a chunk to send and the channel is full
C15_Witness ==
    /\ wpc = "send"
    /\ rx = "open"
    /\ Len(chan) = BUFFER_SIZE
    /\ ~ENABLED WalkerSend
    /\ ENABLED BodyReceive

\* --------------------------------------------------------- two requests

\* the bytes of the archive the upstream holds for a request
OwnBytes(p) == UNION {Bytes(d) : d \in Payloads(OwnArchive(p))}

\* every byte a request's walker holds or has sent, and every byte its channel or body
\* holds, is of its own archive; its body has received what its own walker sent, in
\* the order sent
Isolated(r) ==
    /\ Bytes(r.buffer) \cup Bytes(r.sent) \cup Bytes(Flatten(r.chan))
            \cup Bytes(r.received) \subseteq OwnBytes(r.path)
    /\ IsPrefix(r.received, r.sent)
    /\ r.rx = "open" => r.received \o Flatten(r.chan) = r.sent

\* the running request's walker and body can take their step whatever the state of
\* the other request: a send waits for room in its own channel only, a receive for a
\* chunk in its own channel only
NotSuspended ==
    /\ wpc = "read" => ENABLED WalkerRead
    /\ (wpc = "send" /\ (rx # "open" \/ Len(chan) < BUFFER_SIZE)) => ENABLED WalkerSend
    /\ (hpc = "done" /\ rx = "open" /\ chan # <<>>) => ENABLED BodyReceive
    /\ (hpc = "done" /\ rx = "open" /\ chan = <<>> /\ ~tx) => ENABLED BodyEnd

\* C16: of two requests in flight at once, under every interleaving, each walker
\* sends only on its own request's channel and each body receives only its own
\* walker's chunks: a step of one request leaves every part of the other's state as
\* it was, and each request holds bytes of its own archive only; and a full or
\* stalled channel of one never suspends the walker or body of the other.
C16_RequestsIsolated ==
    /\ [](Isolated(Snapshot) /\ Isolated(parked) /\ NotSuspended)
    /\ [][path' = path => parked' = parked]_vars

\* C16's case: one request's walker is suspended on its full channel, its response
\* not yet returned, and the other request has streamed its file to the end
C16_Witness ==
    /\ parked.wpc = "send" /\ parked.rx = "open" /\ Len(parked.chan) = BUFFER_SIZE
    /\ parked.hpc = "spawned"
    /\ wpc = "done" /\ rx = "ended"
    /\ received = sent /\ Len(sent) = MaxFileLen

\* C17: a Symlink is never matched nor recursed into: when the requested path names
\* a symlink, no bytes are sent to the channel.
C17_SymlinkSendsNothing ==
    (Walking /\ Requested.type = "Symlink") => (sent = <<>> /\ chan = <<>> /\ ~cur.should_stream)

ReadFailed == \E l \in left : l.failed

\* C18: after a read of a file's payload has failed, no further chunk is sent: the
\* client gets a truncated body, a prefix of what was sent before the failure.
C18_NoChunkAfterReadFailure ==
    /\ [](ReadFailed => (wpc # "send" /\ IsPrefix(received, sent)))
    /\ [][ReadFailed => sent' = sent]_vars

\* C18's case: a read failed within a payload after part of it had been sent, and
\* the walker has ended
C18_Witness ==
    /\ \E l \in left : l.failed /\ l.unread > 0
    /\ sent # <<>>
    /\ wpc \in {"done", "error"}
    /\ received = sent

\* the path has the [/]nix/store/ prefix of the full form
HasStorePrefix(p) ==
    StartsWith(IF Len(p) > 0 /\ p[1] = Slash THEN Drop(p, 1) ELSE p, NixStoreTag)

\* C20: the parser succeeds only when a grammar takes the whole input: more than 32
\* characters that are not of the full form and whose 33rd character is not "/" do
\* not resolve.
C20_WholeInput ==
    (Parsed /\ Len(path) > HashLen /\ path[HashLen + 1] # Slash /\ ~HasStorePrefix(path)) =>
        ~store_path.some

\* the walker task is over
WalkerOver == wpc \in {"done", "error", "panicked"}

\* C19: when the walker task ends (the walk finished, the cursor returned an error,
\* the archive failed to open) every sender is dropped; so, the archive being
\* finite and the body being polled, the channel is eventually closed and the
\* response body eventually ends, or is dropped by the client.
C19_BodyEnds ==
    /\ [](WalkerOver => ~tx)
    /\ Walking ~> (WalkerOver /\ rx \in {"ended", "dropped"})

\* C19's case: the walk ended on an error of the cursor after a chunk was sent, and
\* the body has come to its end
C19_Witness ==
    /\ wpc = "error"
    /\ sent # <<>>
    /\ received = sent
    /\ rx = "ended"

====
